---- MODULE Spec2Model ----
(***************************************************************************)
(* Model of librealsense::dds_device_proxy (src/dds/rs-dds-device-proxy.cpp):*)
(* the constructor's catalog build over the remote streams, the post-link  *)
(* pass over the final profiles, the registration of the metadata callback *)
(* and the three extrinsics-graph passes, with the helpers they call.      *)
(* C++ containers are 0-based; sequences here are 1-based, so an index i   *)
(* of the source is position i + 1 of the sequence that models it.         *)
(***************************************************************************)
EXTENDS Integers, Sequences, FiniteSets, TLC

\* ------------------------------------------------------------------ bounds
MaxStreams == 2      \* remote streams foreach_stream delivers to one proxy
MaxFinal == 2        \* final profiles the sensors of one proxy synthesize
MaxNameLen == 4      \* length of the names get_index_from_stream_name is applied to
MaxProxies == 2      \* proxies built one after the other in one process

\* ------------------------------------------------------------------ values
NameChars == {"a", "_", "1", "2", "-"}
Digits == {"0", "1", "2", "3", "4", "5", "6", "7", "8", "9"}
Spaces == {" "}
\* decimal digits of INT_MAX and of -INT_MIN, for the range test of std::stoi
IntMaxDigits == <<2, 1, 4, 7, 4, 8, 3, 6, 4, 7>>
IntMinDigits == <<2, 1, 4, 7, 4, 8, 3, 6, 4, 8>>
npos == 0 - 1

N_a1 == <<"a", "_", "1">>
N_b12 == <<"b", "_", "1", "_", "2">>
N_dx == <<"d", "_", "x">>
N_zz == <<"z", "z", "_", "9">>

StreamNames == {N_a1, N_b12, N_dx}
SensorNames == {"Motion Module", "Stereo Module"}
\* iteration order of std::map< std::string, ... > over the sensor names
SensorOrder == <<"Motion Module", "Stereo Module">>
TypeStrings == {"depth", "motion", "fisheye"}
MetadataNames == {N_a1, N_zz}

RECURSIVE SeqsUpTo(_, _)
SeqsUpTo(S, n) ==
    IF n = 0 THEN {<<>>}
    ELSE LET shorter == SeqsUpTo(S, n - 1)
         IN shorter \cup {Append(s, x) : s \in {t \in shorter : Len(t) = n - 1}, x \in S}

\* ------------------------------------------------------------------ std::string, std::stoi
\* std::string::find( char ): position of the first occurrence, or npos
RECURSIVE FindFrom(_, _, _)
FindFrom(s, c, i) ==
    IF i > Len(s) THEN npos
    ELSE IF s[i] = c THEN i
    ELSE FindFrom(s, c, i + 1)

find(s, c) == FindFrom(s, c, 1)

\* std::string::substr( pos ) for a 1-based position pos of the first kept char
substr(s, pos) == SubSeq(s, pos, Len(s))

DigitValue(c) ==
    CASE c = "0" -> 0 [] c = "1" -> 1 [] c = "2" -> 2 [] c = "3" -> 3 [] c = "4" -> 4
      [] c = "5" -> 5 [] c = "6" -> 6 [] c = "7" -> 7 [] c = "8" -> 8 [] c = "9" -> 9

RECURSIVE SkipSpaces(_, _)
SkipSpaces(s, i) == IF i <= Len(s) /\ s[i] \in Spaces THEN SkipSpaces(s, i + 1) ELSE i

RECURSIVE DigitsEnd(_, _)
DigitsEnd(s, i) == IF i <= Len(s) /\ s[i] \in Digits THEN DigitsEnd(s, i + 1) ELSE i

RECURSIVE DigitsValue(_, _, _, _)
DigitsValue(s, i, j, acc) ==
    IF i >= j THEN acc ELSE DigitsValue(s, i + 1, j, acc * 10 + DigitValue(s[i]))

RECURSIVE SkipZeros(_, _, _)
SkipZeros(s, i, j) == IF i < j - 1 /\ s[i] = "0" THEN SkipZeros(s, i + 1, j) ELSE i

\* whether the digits s[i..j-1] (no leading zero) spell a number above limit
RECURSIVE DigitsAbove(_, _, _, _)
DigitsAbove(s, i, limit, n) ==
    IF n > Len(limit) THEN FALSE
    ELSE IF DigitValue(s[i]) # limit[n] THEN DigitValue(s[i]) > limit[n]
    ELSE DigitsAbove(s, i + 1, limit, n + 1)

OutOfIntRange(s, j, k, neg) ==
    LET z == SkipZeros(s, j, k)
        limit == IF neg THEN IntMinDigits ELSE IntMaxDigits
    IN \/ k - z > Len(limit)
       \/ k - z = Len(limit) /\ DigitsAbove(s, z, limit, 1)

\* std::stoi( str ): skips white space, takes an optional sign and the longest run
\* of decimal digits, ignores what follows; throws std::invalid_argument when there
\* is no digit and std::out_of_range when the value does not fit an int.
stoi(s) ==
    LET i == SkipSpaces(s, 1)
        signed == i <= Len(s) /\ s[i] \in {"+", "-"}
        neg == i <= Len(s) /\ s[i] = "-"
        j == IF signed THEN i + 1 ELSE i
        k == DigitsEnd(s, j)
        v == DigitsValue(s, j, k, 0)   \* evaluated only when in range
    IN IF k = j THEN [ok |-> FALSE, error |-> "invalid_argument", value |-> 0]
       ELSE IF OutOfIntRange(s, j, k, neg)
            THEN [ok |-> FALSE, error |-> "out_of_range", value |-> 0]
       ELSE [ok |-> TRUE, error |-> "none", value |-> IF neg THEN 0 - v ELSE v]

\* ------------------------------------------------------------------ get_index_from_stream_name
\* the index the specification describes: parsed after the LAST '_'
IndexAfterLastDelimiter(name) ==
    LET RECURSIVE RFind(_)
        RFind(i) == IF i < 1 THEN npos ELSE IF name[i] = "_" THEN i ELSE RFind(i - 1)
        delimiter_pos == RFind(Len(name))
    IN IF delimiter_pos # npos THEN stoi(substr(name, delimiter_pos + 1))
       ELSE [ok |-> TRUE, error |-> "none", value |-> 0]

get_index_from_stream_name(name) ==
    LET delimiter_pos == find(name, "_")
    IN IF delimiter_pos # npos THEN stoi(substr(name, delimiter_pos + 1))
       ELSE [ok |-> TRUE, error |-> "none", value |-> 0]

\* ------------------------------------------------------------------ remote streams
\* to_rs2_stream_type: the static map type_to_rs2, or invalid_value_exception
type_to_rs2 ==
    [t \in {"depth", "color", "ir", "motion", "confidence"} |->
        CASE t = "depth" -> "RS2_STREAM_DEPTH"
          [] t = "color" -> "RS2_STREAM_COLOR"
          [] t = "ir" -> "RS2_STREAM_INFRARED"
          [] t = "motion" -> "RS2_STREAM_MOTION"
          [] t = "confidence" -> "RS2_STREAM_CONFIDENCE"]

to_rs2_stream_type_any(type_string) ==
    [ok |-> TRUE, error |-> "none",
     value |-> IF type_string \in DOMAIN type_to_rs2 THEN type_to_rs2[type_string]
               ELSE "RS2_STREAM_ANY"]

to_rs2_stream_type(type_string) ==
    IF type_string \in DOMAIN type_to_rs2
    THEN [ok |-> TRUE, error |-> "none", value |-> type_to_rs2[type_string]]
    ELSE [ok |-> FALSE, error |-> "invalid_value_exception", value |-> "RS2_STREAM_ANY"]

\* realdds::dds_stream_format::to_rs2(): the rs2_format of a remote encoding
format_to_rs2(encoding) ==
    CASE encoding = "16UC1" -> "RS2_FORMAT_Z16"
      [] encoding = "mono8" -> "RS2_FORMAT_Y8"
      [] encoding = "yuv422_yuy2" -> "RS2_FORMAT_YUYV"
      [] OTHER -> "RS2_FORMAT_ANY"

\* the dynamic type of a remote stream: dds_video_stream or dds_motion_stream
IsVideoStream(stream) == stream.type_string \in {"depth", "color", "ir", "confidence", "fisheye"}
IsMotionStream(stream) == stream.type_string = "motion"

\* remote profiles: dds_video_stream_profile and dds_motion_stream_profile
VGA16 == [kind |-> "video", width |-> 640, height |-> 480, format |-> "16UC1", frequency |-> 30]
HD16 == [kind |-> "video", width |-> 1280, height |-> 720, format |-> "16UC1", frequency |-> 30]
IMU200 == [kind |-> "motion", width |-> 0, height |-> 0, format |-> "MXYZ", frequency |-> 200]

RemoteProfiles(type_string) ==
    IF type_string = "motion" THEN <<IMU200>> ELSE <<VGA16, HD16>>

\* the remote stream descriptors foreach_stream can deliver; a video stream has
\* intrinsics for its first resolution only (some profiles have none)
Descriptors ==
    {[name |-> n, sensor_name |-> s, type_string |-> t,
      profiles |-> RemoteProfiles(t), default_profile_index |-> 0,
      intrinsics |-> IF t = "motion" THEN {} ELSE {[width |-> 640, height |-> 480]}] :
        n \in StreamNames, s \in SensorNames, t \in TypeStrings}

\* dds_stream::default_profile()
default_profile(stream) == stream.profiles[stream.default_profile_index + 1]

\* ------------------------------------------------------------------ final profiles
\* what initialization_done() can leave in a sensor: profiles cloned by the formats
\* converter, with type and index, the unique id lost (cleared, or that of a clone),
\* no tag, and the intrinsics accessor wired back to the raw profile
FinalProfile(type, kind, w, h, fmt, fps, uid) ==
    [type |-> type, index |-> 1, kind |-> kind, width |-> w, height |-> h,
     format |-> fmt, framerate |-> fps, uid |-> uid, tag |-> FALSE,
     intr |-> [kind |-> "recursive", of |-> 0], matched |-> 0, sensor |-> 0]

FinalProfiles ==
    {FinalProfile("RS2_STREAM_DEPTH", "video", 640, 480, "RS2_FORMAT_Z16", 30, 0),
     FinalProfile("RS2_STREAM_DEPTH", "video", 1280, 720, "RS2_FORMAT_Z16", 30, 9),
     FinalProfile("RS2_STREAM_MOTION", "motion", 0, 0, "RS2_FORMAT_COMBINED_MOTION", 200, 0)}

\* ------------------------------------------------------------------ tag_default_profile_of_stream
TagCondition_no_resolution(profile, stream) ==
    /\ profile.type = to_rs2_stream_type(stream.type_string).value
    /\ profile.framerate = default_profile(stream).frequency

\* whether tag_profile( PROFILE_TAG_DEFAULT ) is reached (the stream type is known)
TagCondition(profile, stream) ==
    LET dds_default_profile == default_profile(stream)
        vsp == profile.kind = "video"
        dds_vsp == dds_default_profile.kind = "video"
    IN /\ profile.type = to_rs2_stream_type(stream.type_string).value
       /\ profile.framerate = dds_default_profile.frequency
       /\ ~(/\ vsp /\ dds_vsp
            /\ \/ profile.width # dds_default_profile.width
               \/ profile.height # dds_default_profile.height
               \/ profile.format # format_to_rs2(dds_default_profile.format))

tag_default_profile_of_stream_toggle(profile, stream) ==
    [ok |-> TRUE, error |-> "none",
     profile |-> [profile EXCEPT !.tag = (@ # TagCondition(profile, stream))]]

tag_default_profile_of_stream(profile, stream) ==
    IF ~to_rs2_stream_type(stream.type_string).ok
    THEN [ok |-> FALSE, error |-> "invalid_value_exception", profile |-> profile]
    ELSE [ok |-> TRUE, error |-> "none",
          profile |-> [profile EXCEPT !.tag = @ \/ TagCondition(profile, stream)]]

\* ------------------------------------------------------------------ set_profile_intrinsics
set_video_profile_intrinsics_always(profile, stream, pos) ==
    [profile EXCEPT !.intr = [kind |-> "value", of |-> pos]]

set_video_profile_intrinsics(profile, stream, pos) ==
    LET found == {i \in stream.intrinsics :
                    profile.width = i.width /\ profile.height = i.height}
    IN IF profile.kind # "video"
       THEN IF stream.intrinsics = {} THEN profile   \* vsp is null and never used
            ELSE [profile EXCEPT !.intr = [kind |-> "null_dereference", of |-> pos]]
       ELSE IF found # {} THEN [profile EXCEPT !.intr = [kind |-> "value", of |-> pos]]
       ELSE profile

set_motion_profile_intrinsics(profile, stream, pos) ==
    IF profile.kind # "motion"
    THEN [profile EXCEPT !.intr = [kind |-> "null_dereference", of |-> pos]]
    ELSE [profile EXCEPT !.intr = [kind |-> "value", of |-> pos]]

set_profile_intrinsics(profile, stream, pos) ==
    IF IsVideoStream(stream) THEN set_video_profile_intrinsics(profile, stream, pos)
    ELSE IF IsMotionStream(stream) THEN set_motion_profile_intrinsics(profile, stream, pos)
    ELSE profile

\* ------------------------------------------------------------------ create_sensor
create_sensor(sensor_name) ==
    [name |-> sensor_name,
     class |-> IF sensor_name = "RGB Camera" THEN "dds_color_sensor_proxy"
               ELSE IF sensor_name = "Stereo Module" THEN "dds_depth_sensor_proxy"
               ELSE "dds_sensor_proxy",
     streams |-> <<>>]

\* ------------------------------------------------------------------ state
VARIABLES
    pc,                  \* where the constructor is: "foreach", "post_link", "metadata",
                         \* "extrinsics", "profiles", "same", "done", or "failed"
    error,               \* the exception that left the constructor, or "none"
    next_stream_id,      \* environment: the counter behind generate_stream_id()
    prior_ids,           \* ids generate_stream_id() gave to proxies built earlier
    proxies_built,       \* constructions started in this process
    delivered,           \* the remote streams foreach_stream has passed to the lambda
    stream_sidx,         \* per delivered stream: the sidx made for it (sid -1: none)
    sensor_name_to_info, \* sensor name -> [proxy, sensor_index]
    proxies,             \* the dds_sensor_proxy objects create_sensor made
    device_sensors,      \* device::_sensors, filled by add_sensor
    software_sensors,    \* _software_sensors
    assert_ok,           \* the assert of the lambda has held so far
    type_and_index_to_dds_stream_sidx,
    stream_name_to_librs_stream,
    stream_name_to_owning_sensor,
    stream_name_to_profiles,
    linked_sensors,      \* sensors the post-link loop has gone through
    final_profiles,      \* the profiles of get_stream_profiles() the post-link loop
                         \* has come to, in loop order
    md_callbacks,        \* callbacks given to on_metadata_available
    md_last,             \* the last metadata message and the handlers it reached
    has_extrinsics,      \* what has_extrinsics() said: "unread", "yes", "no"
    ext_queried,         \* the (from, to) names get_extrinsics was called with
    ext_returned,        \* those it returned a transform for
    graph_edges,         \* extrinsics graph: register_extrinsics( from, to )
    graph_profiles,      \* extrinsics graph: register_profile( profile )
    graph_same,          \* extrinsics graph: register_same_extrinsics( stream, profile )
    call                 \* a single call of a helper: its arguments and its result

proxy_vars ==
    <<delivered, stream_sidx, sensor_name_to_info, proxies, device_sensors,
      software_sensors, assert_ok, type_and_index_to_dds_stream_sidx,
      stream_name_to_librs_stream, stream_name_to_owning_sensor,
      stream_name_to_profiles, linked_sensors, final_profiles>>
md_vars == <<md_callbacks, md_last>>
graph_vars ==
    <<has_extrinsics, ext_queried, ext_returned, graph_edges, graph_profiles, graph_same>>
process_vars == <<next_stream_id, prior_ids, proxies_built>>
vars == <<pc, error, process_vars, proxy_vars, md_vars, graph_vars, call>>

NoCall == [fn |-> "none"]
NoMetadata == [name |-> <<>>, handled |-> <<>>, error |-> "none"]

InitProxy ==
    /\ pc = "foreach"
    /\ error = "none"
    /\ delivered = <<>>
    /\ stream_sidx = <<>>
    /\ sensor_name_to_info = <<>>
    /\ proxies = <<>>
    /\ device_sensors = <<>>
    /\ software_sensors = <<>>
    /\ assert_ok = TRUE
    /\ type_and_index_to_dds_stream_sidx = <<>>
    /\ stream_name_to_librs_stream = <<>>
    /\ stream_name_to_owning_sensor = <<>>
    /\ stream_name_to_profiles = <<>>
    /\ linked_sensors = {}
    /\ final_profiles = <<>>
    /\ md_callbacks = 0
    /\ md_last = NoMetadata
    /\ has_extrinsics = "unread"
    /\ ext_queried = {}
    /\ ext_returned = {}
    /\ graph_edges = {}
    /\ graph_profiles = {}
    /\ graph_same = {}

Init ==
    /\ InitProxy
    /\ next_stream_id = 0
    /\ prior_ids = {}
    /\ proxies_built = 1
    /\ call = NoCall

\* ------------------------------------------------------------------ catalog build
\* std::map::operator[]= : insert or overwrite
Put(map, key, value) == [k \in DOMAIN map \cup {key} |-> IF k = key THEN value ELSE map[k]]

insert_or_assign(map, key, value) == Put(map, key, value)

\* std::map::insert: the element is inserted only when the key is not there yet
insert(map, key, value) == IF key \in DOMAIN map THEN map ELSE Put(map, key, value)

\* environment::generate_stream_id(): the counter's value, and the counter advances
generate_stream_id(counter) == [id |-> counter, counter |-> counter + 1]

\* device::add_sensor: appends to _sensors and returns the new sensor's index
add_sensor(sensors, proxy) == [sensors |-> Append(sensors, proxy), index |-> Len(sensors)]

\* dds_sensor_proxy::add_dds_stream( sidx, stream )
add_dds_stream(proxy, sidx, pos) == [proxy EXCEPT !.streams = Put(@, sidx, pos)]

\* the raw profiles the lambda pushes for a stream, one per remote profile
RawProfileIds(stream, pos) ==
    IF IsVideoStream(stream) \/ IsMotionStream(stream)
    THEN [j \in 1..Len(stream.profiles) |-> <<"raw", pos, j>>]
    ELSE <<>>

\* sid_index sidx( generate_stream_id(), index )
sid_index_swapped(sid, index) == [sid |-> index, index |-> sid]

sid_index(sid, index) == [sid |-> sid, index |-> index]

IsNewSensor_always(info, sensor_name) == TRUE

\* whether the lambda sees a sensor name for the first time ( ! sensor_info.proxy )
IsNewSensor(info, sensor_name) == sensor_name \notin DOMAIN info

\* the lambda foreach_stream calls for one remote stream
ForeachStream(stream) ==
    /\ pc = "foreach"
    /\ Len(delivered) < MaxStreams
    /\ LET pos == Len(delivered) + 1
           sname == stream.sensor_name
           is_new == IsNewSensor(sensor_name_to_info, sname)
           proxy_id == IF is_new THEN Len(proxies) + 1 ELSE sensor_name_to_info[sname].proxy
           added == add_sensor(device_sensors, proxy_id)
           sensor_index == IF is_new THEN added.index ELSE sensor_name_to_info[sname].sensor_index
           proxies1 == IF is_new THEN Append(proxies, create_sensor(sname)) ELSE proxies
           stream_type == to_rs2_stream_type(stream.type_string)
           index == get_index_from_stream_name(stream.name)
           gen == generate_stream_id(next_stream_id)
           sidx == sid_index(gen.id, index.value)
           type_and_index == [sid |-> stream_type.value, index |-> index.value]
           raw == RawProfileIds(stream, pos)
           \* to_rs2_stream_type or std::stoi throws before an id is generated
           thrown == IF ~stream_type.ok THEN stream_type.error
                     ELSE IF ~index.ok THEN index.error
                     ELSE "none"
           \* get_software_sensor throws for an index that is not in _software_sensors
           no_sensor == sensor_index >= Len(software_sensors) + (IF is_new THEN 1 ELSE 0)
       IN /\ delivered' = Append(delivered, stream)
          /\ sensor_name_to_info' =
                Put(sensor_name_to_info, sname, [proxy |-> proxy_id, sensor_index |-> sensor_index])
          /\ device_sensors' = IF is_new THEN added.sensors ELSE device_sensors
          /\ assert_ok' = (assert_ok /\ (is_new => sensor_index = Len(software_sensors)))
          /\ software_sensors' = IF is_new THEN Append(software_sensors, proxy_id)
                                 ELSE software_sensors
          /\ IF thrown # "none"
             THEN /\ pc' = "failed"
                  /\ error' = thrown
                  /\ proxies' = proxies1
                  /\ stream_sidx' = Append(stream_sidx, [sid |-> 0 - 1, index |-> 0])
                  /\ next_stream_id' = next_stream_id
                  /\ UNCHANGED <<type_and_index_to_dds_stream_sidx, stream_name_to_librs_stream,
                                 stream_name_to_owning_sensor, stream_name_to_profiles>>
             ELSE /\ pc' = IF no_sensor THEN "failed" ELSE "foreach"
                  /\ error' = IF no_sensor THEN "out_of_range" ELSE error
                  /\ next_stream_id' = gen.counter
                  /\ stream_sidx' = Append(stream_sidx, sidx)
                  /\ stream_name_to_librs_stream' =
                        Put(stream_name_to_librs_stream, stream.name,
                            [type |-> stream_type.value, index |-> sidx.index, id |-> pos])
                  /\ proxies' = [proxies1 EXCEPT ![proxy_id] = add_dds_stream(@, sidx, pos)]
                  /\ stream_name_to_owning_sensor' =
                        Put(stream_name_to_owning_sensor, stream.name, proxy_id)
                  /\ type_and_index_to_dds_stream_sidx' =
                        insert(type_and_index_to_dds_stream_sidx, type_and_index, sidx)
                  /\ stream_name_to_profiles' =
                        IF raw = <<>> \/ no_sensor THEN stream_name_to_profiles
                        ELSE Put(stream_name_to_profiles, stream.name,
                                 (IF stream.name \in DOMAIN stream_name_to_profiles
                                  THEN stream_name_to_profiles[stream.name] ELSE <<>>) \o raw)
    /\ UNCHANGED <<prior_ids, proxies_built, linked_sensors, final_profiles, md_vars,
                   graph_vars, call>>

\* the sensors of sensor_name_to_info the post-link loop has still to visit, in map order
SensorsLeft(info, linked) ==
    SelectSeq(SensorOrder, LAMBDA n : n \in DOMAIN info /\ n \notin linked)

EndForeach_registers ==
    /\ pc = "foreach"
    /\ pc' = IF SensorsLeft(sensor_name_to_info, {}) = <<>> THEN "metadata" ELSE "post_link"
    /\ graph_profiles' = graph_profiles \cup
            UNION {{stream_name_to_profiles[n][j] : j \in DOMAIN stream_name_to_profiles[n]} :
                      n \in DOMAIN stream_name_to_profiles}
    /\ UNCHANGED <<error, process_vars, proxy_vars, md_vars, has_extrinsics, ext_queried,
                   ext_returned, graph_edges, graph_same, call>>

\* foreach_stream returns: every remote stream has been delivered
EndForeach ==
    /\ pc = "foreach"
    /\ pc' = IF SensorsLeft(sensor_name_to_info, {}) = <<>> THEN "metadata" ELSE "post_link"
    /\ UNCHANGED <<error, process_vars, proxy_vars, md_vars, graph_vars, call>>

\* ------------------------------------------------------------------ post-link pass
\* the body of the loop over get_stream_profiles() for one final profile of the
\* sensor proxy_id; st = [profiles, n2p, error] is what the loop has built so far
PostLinkProfile_keep_lost_id(st, proxy_id, p) ==
    LET type_and_index == [sid |-> p.type, index |-> p.index]
        streams == proxies[proxy_id].streams
        own == [p EXCEPT !.sensor = proxy_id]
    IN IF type_and_index \notin DOMAIN type_and_index_to_dds_stream_sidx
       THEN [st EXCEPT !.profiles = Append(@, own), !.error = "out_of_range"]
       ELSE LET sidx == type_and_index_to_dds_stream_sidx[type_and_index]
            IN IF sidx \notin DOMAIN streams
               THEN [st EXCEPT !.profiles = Append(@, own)]
               ELSE LET pos == streams[sidx]
                        stream == delivered[pos]
                        p2 == set_profile_intrinsics(own, stream, pos)
                        p3 == tag_default_profile_of_stream(p2, stream)
                    IN [profiles |-> Append(st.profiles, [p3.profile EXCEPT !.matched = pos]),
                        n2p |-> [st.n2p EXCEPT ![stream.name] =
                                    Append(@, <<"final", Len(st.profiles) + 1, 0>>)],
                        error |-> st.error]

PostLinkProfile(st, proxy_id, p) ==
    LET type_and_index == [sid |-> p.type, index |-> p.index]
        streams == proxies[proxy_id].streams
        own == [p EXCEPT !.sensor = proxy_id]
    IN IF type_and_index \notin DOMAIN type_and_index_to_dds_stream_sidx
       THEN [st EXCEPT !.profiles = Append(@, own),        \* std::map::at throws
                       !.error = "out_of_range"]
       ELSE LET sidx == type_and_index_to_dds_stream_sidx[type_and_index]
            IN IF sidx \notin DOMAIN streams
               THEN [st EXCEPT !.profiles = Append(@, own)]   \* "no dds stream": continue
               ELSE LET pos == streams[sidx]                  \* stream_iter->second
                        stream == delivered[pos]
                        p1 == [own EXCEPT !.uid = sidx.sid]
                        p2 == set_profile_intrinsics(p1, stream, pos)
                        p3 == tag_default_profile_of_stream(p2, stream)
                    IN IF stream.name \notin DOMAIN st.n2p
                       THEN [st EXCEPT !.profiles = Append(@, [p2 EXCEPT !.matched = pos]),
                                       !.error = "out_of_range"]
                       ELSE IF ~p3.ok
                       THEN [st EXCEPT !.profiles = Append(@, [p2 EXCEPT !.matched = pos]),
                                       !.error = p3.error]
                       ELSE [profiles |-> Append(st.profiles, [p3.profile EXCEPT !.matched = pos]),
                             n2p |-> [st.n2p EXCEPT ![stream.name] =
                                         Append(@, <<"final", Len(st.profiles) + 1, 0>>)],
                             error |-> st.error]

\* the loop over the final profiles of one sensor; it stops at the first exception
RECURSIVE PostLinkLoop(_, _, _, _)
PostLinkLoop(st, proxy_id, finals, k) ==
    IF k > Len(finals) \/ st.error # "none" THEN st
    ELSE PostLinkLoop(PostLinkProfile(st, proxy_id, finals[k]), proxy_id, finals, k + 1)

\* one round of the loop over sensor_name_to_info: initialization_done() leaves the
\* sensor's final profiles, and each is linked back to its remote stream
PostLinkSensor(finals) ==
    /\ pc = "post_link"
    /\ Len(final_profiles) + Len(finals) <= MaxFinal
    /\ LET left == SensorsLeft(sensor_name_to_info, linked_sensors)
           sname == left[1]
           proxy_id == sensor_name_to_info[sname].proxy
           st == PostLinkLoop([profiles |-> final_profiles, n2p |-> stream_name_to_profiles,
                               error |-> "none"], proxy_id, finals, 1)
       IN /\ final_profiles' = st.profiles
          /\ stream_name_to_profiles' = st.n2p
          /\ linked_sensors' = linked_sensors \cup {sname}
          /\ error' = st.error
          /\ pc' = IF st.error # "none" THEN "failed"
                   ELSE IF Len(left) = 1 THEN "metadata"
                   ELSE "post_link"
    /\ UNCHANGED <<process_vars, delivered, stream_sidx, sensor_name_to_info, proxies,
                   device_sensors, software_sensors, assert_ok,
                   type_and_index_to_dds_stream_sidx, stream_name_to_librs_stream,
                   stream_name_to_owning_sensor, md_vars, graph_vars, call>>

\* ------------------------------------------------------------------ metadata
\* if( supports_metadata() ) on_metadata_available( callback )
RegisterMetadata_early(supports_metadata) ==
    /\ pc = "post_link"
    /\ md_callbacks = 0
    /\ supports_metadata
    /\ md_callbacks' = md_callbacks + 1
    /\ UNCHANGED <<pc, error, process_vars, proxy_vars, md_last, graph_vars, call>>

RegisterMetadata(supports_metadata) ==
    /\ pc = "metadata"
    /\ pc' = "extrinsics"
    /\ md_callbacks' = IF supports_metadata THEN md_callbacks + 1 ELSE md_callbacks
    /\ UNCHANGED <<error, process_vars, proxy_vars, md_last, graph_vars, call>>

OnMetadataAvailable_every_sensor(stream_name) ==
    /\ md_callbacks > 0
    /\ md_last' = [name |-> stream_name,
                   handled |-> [k \in 1..Len(proxies) |-> k],
                   error |-> "none"]
    /\ UNCHANGED <<pc, error, process_vars, proxy_vars, md_callbacks, graph_vars, call>>

\* the callback: the transport delivers a metadata message with this stream-name
OnMetadataAvailable(stream_name) ==
    /\ md_callbacks > 0
    /\ LET found == stream_name \in DOMAIN stream_name_to_owning_sensor
       IN md_last' = [name |-> stream_name,
                      handled |-> IF found THEN <<stream_name_to_owning_sensor[stream_name]>>
                                  ELSE <<>>,
                      error |-> "none"]
    /\ UNCHANGED <<pc, error, process_vars, proxy_vars, md_callbacks, graph_vars, call>>

\* ------------------------------------------------------------------ extrinsics graph
\* the transforms a remote device can publish, as (from, to) stream names
ExtrinsicsTables == {{}, {<<N_a1, N_b12>>}}

\* extrinsics_graph::register_extrinsics( from, to, extr ): a directed edge
register_extrinsics(edges, from, to) == edges \cup {<<from, to>>}

QueriedPairs_with_self(names) == names \X names

\* the pairs of the two nested loops of step 1 that reach get_extrinsics
QueriedPairs(names) == {q \in names \X names : q[1] # q[2]}

\* 1. Register streams with extrinsics between them
RegisterExtrinsics(dev_has_extrinsics, table) ==
    /\ pc = "extrinsics"
    /\ pc' = "profiles"
    /\ LET names == DOMAIN stream_name_to_librs_stream
           queried == IF dev_has_extrinsics THEN QueriedPairs(names) ELSE {}
           returned == queried \cap table
       IN /\ has_extrinsics' = IF dev_has_extrinsics THEN "yes" ELSE "no"
          /\ ext_queried' = queried
          /\ ext_returned' = returned
          /\ graph_edges' = graph_edges \cup
                UNION {register_extrinsics(graph_edges, stream_name_to_librs_stream[q[1]],
                                           stream_name_to_librs_stream[q[2]]) : q \in returned}
    /\ UNCHANGED <<error, process_vars, proxy_vars, md_vars, graph_profiles, graph_same, call>>

\* every element of a sequence
Range(seq) == {seq[i] : i \in DOMAIN seq}

\* extrinsics_graph::register_profile( profile ): the profile is known to the graph
register_profile(profiles, profile) == profiles \cup {profile}

\* extrinsics_graph::register_same_extrinsics( stream, profile ): the profile is made
\* a member of the stream's node, which the graph creates when it is not there
register_same_extrinsics(same, stream, profile) == same \cup {<<stream, profile>>}

\* the profiles the loops of step 2 come to
ProfilesOf(n2p) == UNION {Range(n2p[n]) : n \in DOMAIN n2p}

SameLinks_all_profiles(handles, n2p) ==
    {<<handles[n], prof>> : n \in DOMAIN handles, prof \in ProfilesOf(n2p)}

SameLinks_final_only(handles, n2p) ==
    UNION {{<<handles[n], prof>> : prof \in {q \in Range(n2p[n]) : q[1] = "final"}} :
              n \in DOMAIN handles}

\* the (stream handle, profile) pairs the loops of step 3 come to
SameLinks(handles, n2p) ==
    UNION {{<<handles[n], prof>> : prof \in Range(n2p[n])} : n \in DOMAIN handles}

RegisterProfiles_then_links ==
    /\ pc = "profiles"
    /\ pc' = "same"
    /\ graph_profiles' = graph_profiles \cup ProfilesOf(stream_name_to_profiles)
    /\ graph_same' = graph_same \cup
            {<<stream_name_to_librs_stream[n], prof>> :
                n \in DOMAIN stream_name_to_librs_stream,
                prof \in ProfilesOf(stream_name_to_profiles)}
    /\ UNCHANGED <<error, process_vars, proxy_vars, md_vars, has_extrinsics, ext_queried,
                   ext_returned, graph_edges, call>>

\* 2. Register all profiles
RegisterProfiles ==
    /\ pc = "profiles"
    /\ pc' = "same"
    /\ graph_profiles' = graph_profiles \cup
            UNION {register_profile(graph_profiles, prof) :
                      prof \in ProfilesOf(stream_name_to_profiles)}
    /\ UNCHANGED <<error, process_vars, proxy_vars, md_vars, has_extrinsics, ext_queried,
                   ext_returned, graph_edges, graph_same, call>>

\* 3. Link profile to it's stream; operator[] adds an empty list for a missing name
RegisterSameExtrinsics ==
    /\ pc = "same"
    /\ pc' = "done"
    /\ LET names == DOMAIN stream_name_to_librs_stream
           n2p == [n \in DOMAIN stream_name_to_profiles \cup names |->
                      IF n \in DOMAIN stream_name_to_profiles
                      THEN stream_name_to_profiles[n] ELSE <<>>]
       IN /\ stream_name_to_profiles' = n2p
          /\ graph_same' = graph_same \cup
                UNION {register_same_extrinsics(graph_same, link[1], link[2]) :
                          link \in SameLinks(stream_name_to_librs_stream, n2p)}
    /\ UNCHANGED <<error, process_vars, delivered, stream_sidx, sensor_name_to_info, proxies,
                   device_sensors, software_sensors, assert_ok,
                   type_and_index_to_dds_stream_sidx, stream_name_to_librs_stream,
                   stream_name_to_owning_sensor, linked_sensors, final_profiles, md_vars,
                   has_extrinsics, ext_queried, ext_returned, graph_edges, graph_profiles, call>>

\* ------------------------------------------------------------------ specification
Next ==
    \/ \E stream \in Descriptors : ForeachStream(stream)
    \/ EndForeach
    \/ \E finals \in SeqsUpTo(FinalProfiles, MaxFinal) : PostLinkSensor(finals)
    \/ \E supports_metadata \in BOOLEAN : RegisterMetadata(supports_metadata)
    \/ \E stream_name \in MetadataNames : OnMetadataAvailable(stream_name)
    \/ \E dev_has_extrinsics \in BOOLEAN, table \in ExtrinsicsTables :
            RegisterExtrinsics(dev_has_extrinsics, table)
    \/ RegisterProfiles
    \/ RegisterSameExtrinsics

Spec == Init /\ [][Next]_vars

\* ------------------------------------------------------------------ single calls
\* get_index_from_stream_name applied to one name
IndexNames == SeqsUpTo(NameChars, MaxNameLen)

InitIndex ==
    /\ InitProxy
    /\ next_stream_id = 0
    /\ prior_ids = {}
    /\ proxies_built = 1
    /\ call \in {[fn |-> "get_index_from_stream_name", name |-> n, returned |-> FALSE,
                  result |-> [ok |-> TRUE, error |-> "none", value |-> 0]] : n \in IndexNames}

CallGetIndex ==
    /\ call.fn = "get_index_from_stream_name"
    /\ ~call.returned
    /\ call' = [call EXCEPT !.returned = TRUE, !.result = get_index_from_stream_name(call.name)]
    /\ UNCHANGED <<pc, error, process_vars, proxy_vars, md_vars, graph_vars>>

NextIndex == CallGetIndex

SpecIndex == InitIndex /\ [][NextIndex]_vars

\* tag_default_profile_of_stream applied to one profile and one remote stream
TagProfiles ==
    {[type |-> t, index |-> 1, kind |-> k, width |-> w, height |-> h, format |-> f,
      framerate |-> r, uid |-> 0, tag |-> g, intr |-> [kind |-> "recursive", of |-> 0],
      matched |-> 0, sensor |-> 0] :
        t \in {"RS2_STREAM_DEPTH", "RS2_STREAM_MOTION"}, k \in {"video", "motion"},
        w \in {640, 1280}, h \in {480, 720}, f \in {"RS2_FORMAT_Z16", "RS2_FORMAT_Y8"},
        r \in {30, 200}, g \in BOOLEAN}

TagDefaults ==
    {VGA16, HD16, IMU200,
     [VGA16 EXCEPT !.format = "mono8"], [VGA16 EXCEPT !.frequency = 200],
     [IMU200 EXCEPT !.frequency = 30]}

TagStreams ==
    {[name |-> N_a1, sensor_name |-> "Stereo Module", type_string |-> t,
      profiles |-> <<d>>, default_profile_index |-> 0, intrinsics |-> {}] :
        t \in TypeStrings, d \in TagDefaults}

InitTag ==
    /\ InitProxy
    /\ next_stream_id = 0
    /\ prior_ids = {}
    /\ proxies_built = 1
    /\ call \in {[fn |-> "tag_default_profile_of_stream", profile |-> p, stream |-> s,
                  returned |-> FALSE,
                  result |-> [ok |-> TRUE, error |-> "none", profile |-> p]] :
                    p \in TagProfiles, s \in TagStreams}

CallTagDefault ==
    /\ call.fn = "tag_default_profile_of_stream"
    /\ ~call.returned
    /\ call' = [call EXCEPT !.returned = TRUE,
                            !.result = tag_default_profile_of_stream(call.profile, call.stream)]
    /\ UNCHANGED <<pc, error, process_vars, proxy_vars, md_vars, graph_vars>>

NextTag == CallTagDefault

SpecTag == InitTag /\ [][NextTag]_vars

\* ------------------------------------------------------------------ several proxies
\* the ids the streams of the proxy under construction were given
ProxyIds == {stream_sidx[i].sid : i \in DOMAIN stream_sidx} \ {0 - 1}

\* a further dds_device_proxy is constructed in the same process, once the catalog
\* build of the one before has ended: the environment's counter lives on
NewProxy ==
    /\ pc \in {"post_link", "metadata", "failed"}
    /\ proxies_built < MaxProxies
    /\ proxies_built' = proxies_built + 1
    /\ prior_ids' = prior_ids \cup ProxyIds
    /\ pc' = "foreach"
    /\ error' = "none"
    /\ delivered' = <<>>
    /\ stream_sidx' = <<>>
    /\ sensor_name_to_info' = <<>>
    /\ proxies' = <<>>
    /\ device_sensors' = <<>>
    /\ software_sensors' = <<>>
    /\ assert_ok' = TRUE
    /\ type_and_index_to_dds_stream_sidx' = <<>>
    /\ stream_name_to_librs_stream' = <<>>
    /\ stream_name_to_owning_sensor' = <<>>
    /\ stream_name_to_profiles' = <<>>
    /\ UNCHANGED <<next_stream_id, linked_sensors, final_profiles, md_vars, graph_vars, call>>

NextIds ==
    \/ \E stream \in Descriptors : ForeachStream(stream)
    \/ EndForeach
    \/ NewProxy

SpecIds == Init /\ [][NextIds]_vars

\* ------------------------------------------------------------------ properties
KnownTypes == {"depth", "color", "ir", "motion", "confidence"}

\* the delivered streams the lambda went through to its end
Cataloged == {i \in DOMAIN delivered : stream_sidx[i].sid >= 0}

\* the (stream type, index) key of a cataloged stream
StreamKey(i) == [sid |-> type_to_rs2[delivered[i].type_string], index |-> stream_sidx[i].index]
WithKey(key) == {i \in Cataloged : StreamKey(i) = key}
First(S) == CHOOSE i \in S : \A j \in S : i <= j
Last(S) == CHOOSE i \in S : \A j \in S : i >= j

CatalogNames == {delivered[i].name : i \in Cataloged}
OrderedPairs == {q \in CatalogNames \X CatalogNames : q[1] # q[2]}
EdgesOf(pairs) ==
    {<<stream_name_to_librs_stream[q[1]], stream_name_to_librs_stream[q[2]]>> : q \in pairs}

\* the sensor proxies whose stream map holds a stream of this name
OwnersOf(stream_name) ==
    {k \in DOMAIN proxies :
        \E sx \in DOMAIN proxies[k].streams : delivered[proxies[k].streams[sx]].name = stream_name}

\* C1 (as the specification states it): whenever the text after the LAST '_' of a
\* name parses as an integer, get_index_from_stream_name returns that integer, and
\* it returns 0 for a name without '_'. The code looks for the FIRST '_'.
C1_IndexAfterLastDelimiter ==
    (call.fn = "get_index_from_stream_name" /\ call.returned
        /\ IndexAfterLastDelimiter(call.name).ok)
    => call.result = IndexAfterLastDelimiter(call.name)

\* C2: every final profile the post-link pass matched to a remote stream carries
\* the unique id generated for that stream during the catalog build, and has that
\* stream's (type, index) key.
C2_UniqueIdRestored ==
    \A k \in DOMAIN final_profiles :
        LET p == final_profiles[k]
        IN p.matched # 0 =>
            /\ p.matched \in Cataloged
            /\ p.uid = stream_sidx[p.matched].sid
            /\ [sid |-> p.type, index |-> p.index] = StreamKey(p.matched)

\* a matched profile of a finished proxy that synthesis left with the id 9 of a
\* clone and that now has the id 1 of its stream, the second one cataloged
C2_Witness ==
    /\ pc = "done"
    /\ \E k \in DOMAIN final_profiles :
            /\ final_profiles[k].matched = 2
            /\ final_profiles[k].width = 1280
            /\ final_profiles[k].uid = 1
            /\ stream_sidx[2].sid = 1

\* C3: tag_default_profile_of_stream tags a so far untagged profile exactly when it
\* has the stream's type and the framerate of the stream's default profile and, if
\* both are video profiles, also its width, height and format.
C3_DefaultTagIff ==
    (call.fn = "tag_default_profile_of_stream" /\ call.returned /\ call.result.ok
        /\ ~call.profile.tag)
    => LET p == call.profile
           d == call.stream.profiles[call.stream.default_profile_index + 1]
           both_video == p.kind = "video" /\ d.kind = "video"
       IN call.result.profile.tag <=>
            /\ p.type = type_to_rs2[call.stream.type_string]
            /\ p.framerate = d.frequency
            /\ both_video => /\ p.width = d.width
                             /\ p.height = d.height
                             /\ p.format = format_to_rs2(d.format)

\* a video profile with the default's type, framerate and format but another width
\* went through the function and was left untagged
C3_Witness ==
    /\ call.fn = "tag_default_profile_of_stream" /\ call.returned /\ call.result.ok
    /\ ~call.profile.tag
    /\ call.profile.kind = "video"
    /\ call.stream.profiles[1].kind = "video"
    /\ call.profile.type = type_to_rs2[call.stream.type_string]
    /\ call.profile.framerate = call.stream.profiles[1].frequency
    /\ call.profile.format = format_to_rs2(call.stream.profiles[1].format)
    /\ call.profile.height = call.stream.profiles[1].height
    /\ call.profile.width # call.stream.profiles[1].width
    /\ ~call.result.profile.tag

\* C4 (as stated): after construction get_extrinsics has been queried for every
\* ordered pair of distinct stream names, and the graph holds exactly the edges
\* for which it returned a transform.
C4_EveryPairQueried ==
    pc = "done" =>
        /\ ext_queried = OrderedPairs
        /\ graph_edges = EdgesOf(ext_returned)

\* C4 (amended): once step 1 has run, get_extrinsics has been queried for every
\* ordered pair of distinct stream names if has_extrinsics() is true and for none
\* if it is false, never for a pair (A, A); the graph holds the edge A->B exactly
\* when get_extrinsics(A, B) returned a transform, with no inverted edge added.
C4_PairsQueriedWhenHasExtrinsics ==
    pc \in {"profiles", "same", "done"} =>
        /\ has_extrinsics = "yes" => ext_queried = OrderedPairs
        /\ has_extrinsics = "no" => ext_queried = {}
        /\ \A q \in ext_queried : q[1] # q[2]
        /\ graph_edges = EdgesOf(ext_returned)
        /\ \A a \in CatalogNames, b \in CatalogNames :
                <<stream_name_to_librs_stream[a], stream_name_to_librs_stream[b]>> \in graph_edges
                    <=> <<a, b>> \in ext_returned

\* a transform was returned for (a_1, b_1_2) and none for (b_1_2, a_1): one edge
C4_Witness ==
    /\ pc = "done"
    /\ <<N_a1, N_b12>> \in ext_returned
    /\ <<N_b12, N_a1>> \in ext_queried \ ext_returned
    /\ graph_edges = {<<stream_name_to_librs_stream[N_a1], stream_name_to_librs_stream[N_b12]>>}

\* C5: a delivered metadata message whose stream-name is the name of a cataloged
\* stream reaches the handler of one sensor proxy, one that holds a stream of that
\* name, exactly once; a message with any other stream-name reaches no handler;
\* neither raises an error.
C5_MetadataRouted ==
    md_last.name # <<>> =>
        /\ md_last.error = "none"
        /\ IF OwnersOf(md_last.name) # {}
           THEN Len(md_last.handled) = 1 /\ md_last.handled[1] \in OwnersOf(md_last.name)
           ELSE md_last.handled = <<>>

\* a message for a cataloged stream reached its sensor while another sensor exists
C5_Witness ==
    /\ md_last.name = N_a1
    /\ Len(proxies) = 2
    /\ Len(md_last.handled) = 1
    /\ md_last.handled[1] \in OwnersOf(N_a1)

\* C6: there is exactly one sensor proxy per distinct sensor name among the
\* delivered streams, and every cataloged stream is in the stream map of the proxy
\* of its sensor name and of no other.
C6_OneProxyPerSensorName ==
    /\ Len(proxies) = Cardinality({delivered[i].sensor_name : i \in DOMAIN delivered})
    /\ \A j \in DOMAIN proxies, k \in DOMAIN proxies : proxies[j].name = proxies[k].name => j = k
    /\ \A i \in Cataloged, k \in DOMAIN proxies :
            (\E sx \in DOMAIN proxies[k].streams : proxies[k].streams[sx] = i)
                <=> proxies[k].name = delivered[i].sensor_name

\* two streams of one sensor name ended in the stream map of a single proxy
C6_Witness ==
    /\ pc = "done"
    /\ Len(delivered) = 2
    /\ delivered[1].sensor_name = delivered[2].sensor_name
    /\ Len(proxies) = 1
    /\ Cardinality(DOMAIN proxies[1].streams) = 2

\* C7: a delivered stream with a type string outside the five known ones fails the
\* construction at that stream with invalid_value_exception: it is the last stream
\* delivered, no post-link pass, callback registration or graph registration has
\* run, and the constructor never completes.
C7_UnknownTypeAborts ==
    \A i \in DOMAIN delivered :
        delivered[i].type_string \notin KnownTypes =>
            /\ pc = "failed"
            /\ error = "invalid_value_exception"
            /\ i = Len(delivered)
            /\ linked_sensors = {} /\ final_profiles = <<>>
            /\ md_callbacks = 0
            /\ has_extrinsics = "unread"
            /\ graph_edges = {} /\ graph_profiles = {} /\ graph_same = {}

\* the first of the streams has an unknown type and the construction has failed there
C7_Witness ==
    /\ pc = "failed"
    /\ error = "invalid_value_exception"
    /\ Len(delivered) = 1
    /\ delivered[1].type_string \notin KnownTypes

C9_FreshIncreasingIds ==
    /\ \A i \in DOMAIN stream_sidx : i < Len(stream_sidx) => i \in Cataloged
    /\ pc # "failed" => Cataloged = DOMAIN delivered
    /\ \A i \in Cataloged, j \in Cataloged : i < j => stream_sidx[i].sid < stream_sidx[j].sid
    /\ \A i \in Cataloged : \A x \in prior_ids : x < stream_sidx[i].sid
    /\ \A i \in Cataloged : stream_sidx[i].sid < next_stream_id

\* a second proxy of the process has cataloged two streams after a first one did
C9_Witness ==
    /\ proxies_built = 2
    /\ Cardinality(prior_ids) = 2
    /\ Cardinality(Cataloged) = 2

\* C10 (as stated): the dedup map holds, for every key, the identity of the LAST
\* cataloged stream with that key.
C10_LastWriteWins ==
    \A key \in DOMAIN type_and_index_to_dds_stream_sidx :
        /\ WithKey(key) # {}
        /\ type_and_index_to_dds_stream_sidx[key] = stream_sidx[Last(WithKey(key))]

\* C10 (amended): the dedup map holds, for every key, the identity of the FIRST
\* cataloged stream with that key (std::map::insert keeps the element that is
\* there), so the post-link pass links the profiles of that key to the first one.
C10_FirstWriteWins ==
    /\ \A i \in Cataloged : StreamKey(i) \in DOMAIN type_and_index_to_dds_stream_sidx
    /\ \A key \in DOMAIN type_and_index_to_dds_stream_sidx :
            /\ WithKey(key) # {}
            /\ type_and_index_to_dds_stream_sidx[key] = stream_sidx[First(WithKey(key))]
    /\ \A k \in DOMAIN final_profiles :
            LET p == final_profiles[k]
            IN p.matched # 0 => p.matched = First(WithKey([sid |-> p.type, index |-> p.index]))

\* two streams have one key and a final profile of that key is linked to the first
C10_Witness ==
    /\ pc = "done"
    /\ \E k \in DOMAIN final_profiles :
            /\ final_profiles[k].matched = 1
            /\ WithKey([sid |-> final_profiles[k].type, index |-> final_profiles[k].index]) = {1, 2}

\* the final profiles the post-link loop came to whose key the dedup map lacks
AbsentKey ==
    {k \in DOMAIN final_profiles :
        [sid |-> final_profiles[k].type, index |-> final_profiles[k].index]
            \notin DOMAIN type_and_index_to_dds_stream_sidx}

\* the final profiles the post-link loop matched to a remote stream
Matched == {k \in DOMAIN final_profiles : final_profiles[k].matched # 0}

\* C11 (as the specification states it): a final profile whose (type, index) key is
\* absent from the dedup map is skipped: the construction does not fail, and the
\* profile keeps the id, the accessor and the tag synthesis left and is in no
\* stream's profile list. The code looks the key up with std::map::at, which throws.
C11_AbsentKeySkipped ==
    \A k \in AbsentKey :
        /\ pc # "failed"
        /\ error = "none"
        /\ final_profiles[k].matched = 0
        /\ final_profiles[k].uid \in {0, 9}
        /\ final_profiles[k].intr.kind = "recursive"
        /\ ~final_profiles[k].tag
        /\ \A n \in DOMAIN stream_name_to_profiles :
                \A j \in DOMAIN stream_name_to_profiles[n] :
                    stream_name_to_profiles[n][j] # <<"final", k, 0>>

HasIntrinsicsFor(p, stream) ==
    \/ IsMotionStream(stream)
    \/ \E i \in stream.intrinsics : i.width = p.width /\ i.height = p.height

C13_ThreeOrderedPasses ==
    /\ pc \in {"foreach", "post_link", "metadata", "extrinsics", "failed"} =>
            graph_edges = {} /\ graph_profiles = {} /\ graph_same = {}
    /\ pc = "profiles" => graph_profiles = {} /\ graph_same = {}
    /\ pc = "same" => graph_same = {}
    /\ pc \in {"same", "done"} => graph_profiles = ProfilesOf(stream_name_to_profiles)
    /\ \A e \in graph_edges : register_extrinsics(graph_edges, e[1], e[2]) = graph_edges
    /\ \A prof \in graph_profiles : register_profile(graph_profiles, prof) = graph_profiles
    /\ \A link \in graph_same :
            register_same_extrinsics(graph_same, link[1], link[2]) = graph_same

\* the three passes have each registered something
C13_Witness ==
    /\ pc = "done"
    /\ graph_edges # {}
    /\ Cardinality(graph_profiles) > 4
    /\ Cardinality(graph_same) > 4

\* the name of the remote stream a registered profile belongs to: the stream a raw
\* profile was made for, the stream a final profile was matched to
StreamNameOf(prof) ==
    IF prof[1] = "raw" THEN delivered[prof[2]].name
    ELSE delivered[final_profiles[prof[2]].matched].name

\* the stream handles register_same_extrinsics linked a profile to
HandlesOf(prof) == {link[1] : link \in {l \in graph_same : l[2] = prof}}

DistinctNames == \A i \in Cataloged, j \in Cataloged : delivered[i].name = delivered[j].name => i = j

\* C14: after construction every final profile matched to a remote stream is
\* registered with the graph and linked to exactly one stream handle, the one kept
\* under the name of its matched stream (made for that very stream when no two
\* streams share a name); every link of the graph joins a stream handle and a
\* profile of the stream of that name.
C14_ProfilesLinkedToOwnStream ==
    pc = "done" =>
        /\ \A k \in Matched :
                LET prof == <<"final", k, 0>>
                    stream == delivered[final_profiles[k].matched]
                IN /\ prof \in graph_profiles
                   /\ HandlesOf(prof) = {stream_name_to_librs_stream[stream.name]}
                   /\ DistinctNames =>
                        stream_name_to_librs_stream[stream.name].id = final_profiles[k].matched
        /\ \A link \in graph_same :
                link[1] = stream_name_to_librs_stream[StreamNameOf(link[2])]
        /\ \A k \in DOMAIN final_profiles \ Matched : <<"final", k, 0>> \notin graph_profiles

\* two streams of different names, each with a matched final profile linked to it
C14_Witness ==
    /\ pc = "done"
    /\ DistinctNames
    /\ Len(final_profiles) = 2
    /\ final_profiles[1].matched # 0 /\ final_profiles[2].matched # 0
    /\ final_profiles[1].matched # final_profiles[2].matched
    /\ <<stream_name_to_librs_stream[delivered[2].name], <<"final", 1, 0>>>> \in graph_same
           \/ <<stream_name_to_librs_stream[delivered[2].name], <<"final", 2, 0>>>> \in graph_same

\* the stream handles the graph has a node for: the ends of an edge and the streams
\* a profile was linked to
Nodes == {e[1] : e \in graph_edges} \cup {e[2] : e \in graph_edges}
            \cup {link[1] : link \in graph_same}

\* C15: after construction the graph has a node for the stream handle of every
\* cataloged stream name, whether or not an edge was registered for it and whether
\* or not the device has extrinsics.
C15_NodeForEveryStream ==
    pc = "done" =>
        /\ DOMAIN stream_name_to_librs_stream = CatalogNames
        /\ \A n \in CatalogNames : stream_name_to_librs_stream[n] \in Nodes

\* a device without extrinsics: two streams, no edge, no final profile, two nodes
C15_Witness ==
    /\ pc = "done"
    /\ has_extrinsics = "no"
    /\ graph_edges = {}
    /\ final_profiles = <<>>
    /\ Cardinality(CatalogNames) = 2
    /\ Cardinality(Nodes) = 2

\* the final profiles matched to the remote stream at position pos that carry the tag
TaggedOf(pos) == {k \in Matched : final_profiles[k].matched = pos /\ final_profiles[k].tag}

\* C16: applying tag_default_profile_of_stream once more to a matched final profile
\* and its stream succeeds and leaves the profile, tagged or not, as it is; the
\* tagged profiles of one remote stream all have one (width, height, format), that
\* of the stream's default profile when it is a video stream; a profile that was not
\* matched is not tagged.
C16_DefaultTagIdempotent ==
    /\ \A k \in Matched :
            LET p == final_profiles[k]
                again == tag_default_profile_of_stream(p, delivered[p.matched])
            IN again.ok /\ again.profile = p
    /\ \A i \in Cataloged :
            /\ \A k \in TaggedOf(i), j \in TaggedOf(i) :
                    /\ final_profiles[k].width = final_profiles[j].width
                    /\ final_profiles[k].height = final_profiles[j].height
                    /\ final_profiles[k].format = final_profiles[j].format
            /\ \A k \in TaggedOf(i) :
                    LET d == default_profile(delivered[i])
                    IN d.kind = "video" =>
                        /\ final_profiles[k].width = d.width
                        /\ final_profiles[k].height = d.height
                        /\ final_profiles[k].format = format_to_rs2(d.format)
    /\ \A k \in DOMAIN final_profiles \ Matched : ~final_profiles[k].tag

\* two final profiles of the default's framerate matched to one stream: the one of
\* the default's resolution is tagged, the one of 1280x720 is not
C16_Witness ==
    /\ pc = "done"
    /\ Len(final_profiles) = 2
    /\ final_profiles[1].matched = 1 /\ final_profiles[2].matched = 1
    /\ final_profiles[1].framerate = final_profiles[2].framerate
    /\ TaggedOf(1) = {1}
    /\ final_profiles[2].width = 1280

\* the positions at which a sensor name is delivered
DeliveredAt(sensor_name) == {i \in DOMAIN delivered : delivered[i].sensor_name = sensor_name}

\* the sensor names delivered before position i
SeenBefore(i) == {delivered[j].sensor_name : j \in 1..(i - 1)}

\* C17: every delivered sensor name has one sensor proxy, numbered by the count of
\* distinct sensor names delivered before its first stream and stored at that place
\* of _software_sensors and of the device's sensors; the assertion of the lambda
\* has held at every creation.
C17_SensorsInFirstSeenOrder ==
    /\ assert_ok
    /\ DOMAIN sensor_name_to_info = {delivered[i].sensor_name : i \in DOMAIN delivered}
    /\ Len(software_sensors) = Cardinality(DOMAIN sensor_name_to_info)
    /\ Len(device_sensors) = Len(software_sensors)
    /\ Len(proxies) = Len(software_sensors)
    /\ \A sname \in DOMAIN sensor_name_to_info :
            LET info == sensor_name_to_info[sname]
                k == Cardinality(SeenBefore(First(DeliveredAt(sname))))
            IN /\ info.sensor_index = k
               /\ software_sensors[k + 1] = info.proxy
               /\ device_sensors[k + 1] = info.proxy
               /\ proxies[info.proxy].name = sname

\* "Stereo Module" was delivered before "Motion Module": it has index 0 although it
\* comes second in the order of the map the post-link loop goes through
C17_Witness ==
    /\ pc = "done"
    /\ Len(delivered) = 2
    /\ delivered[1].sensor_name = "Stereo Module"
    /\ delivered[2].sensor_name = "Motion Module"
    /\ sensor_name_to_info["Stereo Module"].sensor_index = 0
    /\ sensor_name_to_info["Motion Module"].sensor_index = 1

\* C18: a construction fails with invalid_value_exception (unknown type string),
\* with an exception of std::stoi (index suffix) or with std::out_of_range (post-link
\* lookup), and when it has failed no metadata callback is registered, no message
\* was delivered, has_extrinsics and get_extrinsics were never called and the graph
\* has no edge, profile or link of this construction.
C18_FailureBeforeRegistration ==
    /\ pc = "failed" <=> error # "none"
    /\ pc = "failed" =>
            /\ error \in {"invalid_value_exception", "invalid_argument", "out_of_range"}
            /\ error = "invalid_value_exception" <=>
                    delivered[Len(delivered)].type_string \notin KnownTypes
            /\ linked_sensors # {} => error = "out_of_range" /\ AbsentKey # {}
            /\ md_callbacks = 0
            /\ md_last = NoMetadata
            /\ has_extrinsics = "unread"
            /\ ext_queried = {}
            /\ graph_edges = {} /\ graph_profiles = {} /\ graph_same = {}

\* the post-link pass linked the profiles of one sensor and failed in the second
C18_Witness ==
    /\ pc = "failed"
    /\ error = "out_of_range"
    /\ Cardinality(linked_sensors) = 2
    /\ Len(final_profiles) = 2
    /\ final_profiles[1].matched # 0
    /\ AbsentKey = {2}

====
